---- MODULE Spec2Model ----
(***************************************************************************)
(* The repository index coherence engine of chartmuseum                    *)
(* (pkg/chartmuseum/handlers.go and server.go): the request handlers, the  *)
(* full reconcile (regenerateRepositoryIndex), the incremental add/remove  *)
(* of one package and the cache lock, over a storage backend that can fail *)
(* and that can be changed out-of-band.                                    *)
(***************************************************************************)
EXTENDS Integers, Sequences, FiniteSets, TLC

\* ---------------------------------------------------------------- bounds
MaxVersion == 2        \* versions 1..MaxVersion of every chart name
MaxDigest == 1         \* distinct valid package contents per (name, version)
MaxRequests == 2       \* requests and ticks started in one behaviour
MaxOutOfBand == 1      \* out-of-band changes of the backend in one behaviour
MaxRequestVersion == 1 \* uploads and deletes are for versions 1..MaxRequestVersion

NameSeq == <<"alpha">>
Names == {NameSeq[i] : i \in 1..Len(NameSeq)}
Versions == 1..MaxVersion
Digests == 1..MaxDigest
RequestVersions == 1..MaxRequestVersion
Threads == {1, 2}
NoThread == 0

\* ------------------------------------------------------- filenames, content
ChartPackageFileExtension == "tgz"
ProvenanceFileExtension == "tgz.prov"

ChartPackageFilenameFromNameVersion(name, version) ==
    [name |-> name, version |-> version, ext |-> ChartPackageFileExtension]

ProvenanceFilenameFromNameVersion(name, version) ==
    [name |-> name, version |-> version, ext |-> ProvenanceFileExtension]

PackagePaths == {ChartPackageFilenameFromNameVersion(n, v) : n \in Names, v \in Versions}
ProvenancePaths == {ProvenanceFilenameFromNameVersion(n, v) : n \in Names, v \in Versions}
Paths == PackagePaths \cup ProvenancePaths

\* the listing order of the backend: by name, then version, package before provenance
PathSeq ==
    [i \in 1..(2 * Len(NameSeq) * MaxVersion) |->
        LET c == (i - 1) \div 2
            n == NameSeq[(c \div MaxVersion) + 1]
            v == (c % MaxVersion) + 1
        IN  IF (i - 1) % 2 = 0 THEN ChartPackageFilenameFromNameVersion(n, v)
                                ELSE ProvenanceFilenameFromNameVersion(n, v)]

\* content of a file: a chart package, a provenance file, bytes that are no
\* package ("junk"), no bytes at all ("empty"); Absent: no such file
ChartContent(n, v, d) == [kind |-> "chart", name |-> n, version |-> v, digest |-> d]
ProvContent(n, v) == [kind |-> "prov", name |-> n, version |-> v, digest |-> 0]
JunkContent == [kind |-> "junk", name |-> "", version |-> 0, digest |-> 0]
EmptyContent == [kind |-> "empty", name |-> "", version |-> 0, digest |-> 0]
Absent == [kind |-> "absent", name |-> "", version |-> 0, digest |-> 0]

ChartContents == {ChartContent(n, v, d) : n \in Names, v \in Versions, d \in Digests}
ProvContents == {ProvContent(n, v) : n \in Names, v \in Versions}
\* what requests carry: packages and provenance files of the request versions
UploadCharts == {c \in ChartContents : c.version \in RequestVersions}
UploadProvs == {c \in ProvContents : c.version \in RequestVersions}

HasExtension(object, ext) == object.Path.ext = ext

\* repo.ChartPackageFilenameFromContent / repo.ProvenanceFilenameFromContent
ChartPackageFilenameFromContent(content) ==
    IF content.kind = "chart"
    THEN [err |-> "nil", filename |-> ChartPackageFilenameFromNameVersion(content.name, content.version)]
    ELSE [err |-> "invalid", filename |-> ChartPackageFilenameFromNameVersion("", 0)]

ProvenanceFilenameFromContent(content) ==
    IF content.kind = "prov"
    THEN [err |-> "nil", filename |-> ProvenanceFilenameFromNameVersion(content.name, content.version)]
    ELSE [err |-> "invalid", filename |-> ProvenanceFilenameFromNameVersion("", 0)]

\* ------------------------------------------------------------ chart versions
NullChartVersion == [Name |-> "", Version |-> 0, Digest |-> 0]
ErrorInvalidChartPackage == "invalid"

\* repo.ChartVersionFromStorageObject: decodes the object's content
ChartVersionFromStorageObject(object) ==
    IF object.Content.kind = "chart"
    THEN [err |-> "nil",
          cv |-> [Name |-> object.Content.name, Version |-> object.Content.version,
                  Digest |-> object.Content.digest]]
    ELSE [err |-> ErrorInvalidChartPackage, cv |-> NullChartVersion]

\* ------------------------------------------------------------------ Index
SameKey(e, cv) == e.Name = cv.Name /\ e.Version = cv.Version
AddEntry(entries, cv) == {e \in entries : ~SameKey(e, cv)} \cup {cv}
RemoveEntry(entries, cv) == {e \in entries : ~SameKey(e, cv)}
UpdateEntry(entries, cv) == AddEntry(entries, cv)
Keys(entries) == {<<e.Name, e.Version>> : e \in entries}
VersionsOf(entries, name) == {e \in entries : e.Name = name}
\* Index.Get: version 0 stands for "" (latest): the newest version of the name
IndexGet(entries, name, version) ==
    LET vs == VersionsOf(entries, name)
    IN  IF version = 0
        THEN {e \in vs : \A f \in vs : f.Version <= e.Version}
        ELSE {e \in vs : e.Version = version}
RawEmpty == <<>>
Serialize(entries) == <<entries>>
Deserialize(raw) == IF raw = RawEmpty THEN {} ELSE raw[1]

\* --------------------------------------------------------- storage objects
Object(path, content) == [Path |-> path, Content |-> content]
EmptyObject == Object(ChartPackageFilenameFromNameVersion("", 0), EmptyContent)
\* the identity-meta the diff compares: stable for unchanged content
Meta(object) == object.Content

PathsOf(objects) == {objects[i].Path : i \in 1..Len(objects)}
\* the object a hash table keyed by path holds for path p: the last one
ByPath(objects, p) ==
    objects[CHOOSE i \in 1..Len(objects) :
                /\ objects[i].Path = p
                /\ \A j \in (i + 1)..Len(objects) : objects[j].Path # p]
IsLastOfPath(objects, i) == \A j \in (i + 1)..Len(objects) : objects[j].Path # objects[i].Path

RECURSIVE SelectIdx(_, _, _)
\* the elements objects[i] with Test(objects, i), in order
SelectIdx(objects, keep, i) ==
    IF i > Len(objects) THEN <<>>
    ELSE (IF i \in keep THEN <<objects[i]>> ELSE <<>>) \o SelectIdx(objects, keep, i + 1)

\* storage.GetObjectSliceDiff
GetObjectSliceDiff(old, new) ==
    LET removed == SelectIdx(old, {i \in 1..Len(old) :
                        IsLastOfPath(old, i) /\ old[i].Path \notin PathsOf(new)}, 1)
        added == SelectIdx(new, {i \in 1..Len(new) :
                        IsLastOfPath(new, i) /\ new[i].Path \notin PathsOf(old)}, 1)
        updated == SelectIdx(new, {i \in 1..Len(new) :
                        /\ IsLastOfPath(new, i)
                        /\ new[i].Path \in PathsOf(old)
                        /\ Meta(ByPath(old, new[i].Path)) # Meta(new[i])}, 1)
    IN  [Added |-> added, Removed |-> removed, Updated |-> updated,
         Change |-> Len(added) + Len(removed) + Len(updated) > 0]

\* ----------------------------------------------------------------- backend
\* StorageBackend.ListObjects on backend state b: every stored object
ListObjects(b) ==
    SelectIdx([i \in 1..Len(PathSeq) |-> Object(PathSeq[i], b[PathSeq[i]])],
              {i \in 1..Len(PathSeq) : b[PathSeq[i]] # Absent}, 1)

\* StorageBackend.GetObject; fault: the backend fails with an I/O error
GetObject(b, path, fault) ==
    IF fault THEN [err |-> "io", object |-> EmptyObject]
    ELSE IF b[path] = Absent THEN [err |-> "notfound", object |-> EmptyObject]
    ELSE [err |-> "nil", object |-> Object(path, b[path])]

\* StorageBackend.PutObject: creates or overwrites
PutObject(b, path, content, fault) ==
    IF fault THEN [err |-> "io", backend |-> b]
    ELSE [err |-> "nil", backend |-> [b EXCEPT ![path] = content]]

\* StorageBackend.DeleteObject: fails when the file is absent
DeleteObject(b, path) ==
    IF b[path] = Absent THEN [err |-> "notfound", backend |-> b]
    ELSE [err |-> "nil", backend |-> [b EXCEPT ![path] = Absent]]

\* server.getObjectChartVersion(object, load)
getObjectChartVersion(b, object, load, fault) ==
    IF load
    THEN LET g == GetObject(b, object.Path, fault)
         IN  IF g.err # "nil" THEN [err |-> g.err, cv |-> NullChartVersion]
             ELSE IF g.object.Content = EmptyContent
                  THEN [err |-> ErrorInvalidChartPackage, cv |-> NullChartVersion]
                  ELSE ChartVersionFromStorageObject(g.object)
    ELSE ChartVersionFromStorageObject(object)

\* server.checkInvalidChartPackageError: an invalid package is only logged
checkInvalidChartPackageError(err) ==
    IF err = ErrorInvalidChartPackage THEN "nil" ELSE err

\* one goroutine of addIndexObjectsAsync, given the value of the enclosing
\* function's err and the result r of getObjectChartVersion: the goroutine
\* declares its own err (chartVersion, err := ...), so the enclosing err
\* keeps its value; loaded[i] is set only when r is no error
AsyncWorker(outerErr, r) ==
    IF outerErr = "nil"
    THEN [err |-> outerErr, loaded |-> IF r.err = "nil" THEN r.cv ELSE NullChartVersion]
    ELSE [err |-> outerErr, loaded |-> NullChartVersion]

\* ------------------------------------------------------------------- state
VARIABLES
    CacheRefreshPeriod,   \* 0: refresh on read; 1: periodic refresh (> 0)
    AllowOverwrite,
    backend,              \* StorageBackend: path -> content or Absent
    Entries,              \* RepositoryIndex.IndexFile.Entries: the one entries map
    Raw,                  \* RepositoryIndex.Raw of the live Index
    StorageCache,         \* server.StorageCache
    StorageCacheLock,     \* the thread holding the lock, or NoThread
    pc,                   \* where each request thread stands
    req,                  \* the request each thread serves
    rg,                   \* locals of regenerateRepositoryIndex
    up,                   \* locals of the upload handlers
    resp,                 \* the status each thread's request was answered with
    hist,                 \* per thread: what the claims need of the request's past
    track,                \* what the claims need of the server's past
    nreq,                 \* requests started so far
    noob                  \* out-of-band changes so far

vars == <<CacheRefreshPeriod, AllowOverwrite, backend, Entries, Raw, StorageCache,
          StorageCacheLock, pc, req, rg, up, resp, hist, track, nreq, noob>>

config == <<CacheRefreshPeriod, AllowOverwrite>>
index == <<Entries, Raw, StorageCache>>

NoReq == [kind |-> "none", name |-> "", version |-> 0, pkg |-> Absent, prov |-> Absent]
NoRg == [objects |-> <<>>, removed |-> <<>>, updated |-> <<>>, added |-> <<>>,
         loaded |-> <<>>, todo |-> {}, pending |-> <<>>, wRaw |-> RawEmpty,
         err |-> "nil", asyncErr |-> "nil", listed |-> FALSE, change |-> FALSE,
         caller |-> "none", fetchErr |-> "nil", steady |-> FALSE]
NoUp == [files |-> <<>>, stored |-> <<>>, i |-> 0]
Snapshot == [Entries |-> Entries, Raw |-> Raw, StorageCache |-> StorageCache]
NoSnapshot == [Entries |-> {}, Raw |-> RawEmpty, StorageCache |-> <<>>]
\* rgpre: the index when the thread's reconcile took the lock (for a delete:
\* when it called DeleteObject); touched: the
\* request's own steps changed the live entries, raw or StorageCache; alone:
\* nothing else ran or changed the backend during the request; existed: an
\* overwrite check of the request met a stored file; puts, dels: PutObject and
\* DeleteObject calls the request issued; provFailed: PutObject of the
\* provenance file failed after the package was stored; indexed: the delete
\* met a stored package with an entry; expectIn, expectOut: the packages a read
\* is to find, and not to find, in the index (for a delete: the package, when
\* an earlier delete removed it and nothing stored it again)
NoHist == [rgpre |-> NoSnapshot, touched |-> FALSE, alone |-> FALSE, existed |-> FALSE,
           puts |-> 0, dels |-> 0, provFailed |-> FALSE, indexed |-> FALSE,
           expectIn |-> {}, expectOut |-> {}]
\* hist when thread t starts a request
StartHist(t, mutation) ==
    [u \in Threads |->
        IF u = t
        THEN [NoHist EXCEPT !.alone = mutation /\ \A w \in Threads \ {t} : pc[w] = "idle",
                            !.expectIn = IF mutation THEN {} ELSE track.oobAdded,
                            !.expectOut = IF mutation THEN {}
                                          ELSE track.oobRemoved \cup track.gone]
        ELSE [hist[u] EXCEPT !.alone = FALSE]]

\* what package path p may hold without the server having stored it: nothing, a
\* package of that name and version, and, for the versions requests are about,
\* bytes that are no package
StoredContents(p, invalid) ==
    {Absent} \cup {ChartContent(p.name, p.version, d) : d \in Digests}
             \cup (IF p.version \in RequestVersions THEN {invalid} ELSE {})

\* the filtered listing of listObjectsGetDiff
FilteredObjects(b) ==
    SelectSeq(ListObjects(b), LAMBDA o : HasExtension(o, ChartPackageFileExtension))

RECURSIVE EntriesOf(_)
\* the entries of the valid packages among objects
EntriesOf(objects) ==
    IF objects = <<>> THEN {}
    ELSE LET r == ChartVersionFromStorageObject(Head(objects))
         IN  IF r.err = "nil" THEN AddEntry(EntriesOf(Tail(objects)), r.cv)
             ELSE EntriesOf(Tail(objects))

\* NewServer: an empty Index and StorageCache, then regenerateRepositoryIndex
\* over whatever the backend holds
Init ==
    /\ CacheRefreshPeriod \in {0, 1}
    /\ AllowOverwrite \in BOOLEAN
    /\ backend \in {b \in [Paths -> {Absent} \cup ChartContents \cup {EmptyContent}] :
            /\ \A p \in ProvenancePaths : b[p] = Absent
            /\ \A p \in PackagePaths : b[p] \in StoredContents(p, EmptyContent)}
    /\ StorageCache = FilteredObjects(backend)
    /\ Entries = EntriesOf(StorageCache)
    /\ Raw = Serialize(Entries)
    /\ StorageCacheLock = NoThread
    /\ pc = [t \in Threads |-> "idle"]
    /\ req = [t \in Threads |-> NoReq]
    /\ rg = [t \in Threads |-> NoRg]
    /\ up = [t \in Threads |-> NoUp]
    /\ resp = [t \in Threads |-> 0]
    /\ hist = [t \in Threads |-> NoHist]
    /\ track = [steady |-> TRUE, stale |-> {}, oobAdded |-> {}, oobRemoved |-> {},
                gone |-> {}]
    /\ nreq = 0
    /\ noob = 0

\* a handler that returns without its Unlock()
StillLocked == StorageCacheLock
\* the deferred StorageCacheLock.Unlock() of the upload and delete handlers
Unlocked == IF CacheRefreshPeriod > 0 THEN NoThread ELSE StorageCacheLock
\* StorageCacheLock.Lock() of the upload and delete handlers
CanLock == CacheRefreshPeriod > 0 => StorageCacheLock = NoThread
\* a handler that goes on without the lock
Unheld(t) == StorageCacheLock
Locked(t) == IF CacheRefreshPeriod > 0 THEN t ELSE StorageCacheLock

RgPhases == {"rg_removed", "rg_updated", "rg_fetch", "rg_add", "rg_regen"}
KeyOf(path) == <<path.name, path.version>>
\* track after a step of a request that may have changed the backend to b:
\* steady: a reconcile returned success and the backend, the live index and
\* StorageCache were not changed since its listing; stale: the threads whose
\* reconcile listed before the last change; oobAdded, oobRemoved: the packages
\* the last out-of-band change added and removed, while the backend stays as
\* it left it; gone: the packages delete requests removed and nothing stored again
Tracked(b) ==
    IF b = backend THEN track
    ELSE [steady |-> FALSE, stale |-> {u \in Threads : pc[u] \in RgPhases},
          oobAdded |-> {}, oobRemoved |-> {},
          gone |-> {k \in track.gone :
                        b[ChartPackageFilenameFromNameVersion(k[1], k[2])] = Absent}]

\* ------------------------------------------- regenerateRepositoryIndex
\* where regenerateRepositoryIndex goes next, given what is left to do
RgPhase(r) ==
    IF Len(r.removed) > 0 THEN "rg_removed"
    ELSE IF Len(r.updated) > 0 THEN "rg_updated"
    ELSE IF r.todo # {} THEN "rg_fetch"
    ELSE IF Len(r.pending) > 0 THEN "rg_add"
    ELSE "rg_regen"

\* regenerateRepositoryIndex returns with locals r: the deferred Unlock(), then
\* the caller goes on (a read handler answers 500 on an error)
RgReturn(t, r) ==
    /\ rg' = [rg EXCEPT ![t] = r]
    /\ StorageCacheLock' = NoThread
    /\ IF r.caller = "read" /\ r.err = "nil"
       THEN /\ pc' = [pc EXCEPT ![t] = "serve"]
            /\ resp' = resp
       ELSE /\ pc' = [pc EXCEPT ![t] = "done"]
            /\ resp' = [resp EXCEPT ![t] = IF r.err = "nil" THEN 200 ELSE 500]

\* regenerateRepositoryIndex goes on with locals r
RgGoOn(t, r) ==
    /\ rg' = [rg EXCEPT ![t] = r]
    /\ pc' = [pc EXCEPT ![t] = RgPhase(r)]
    /\ UNCHANGED <<StorageCacheLock, resp>>

\* StorageCacheLock.Lock(), listObjectsGetDiff, and the working index is built
RgList(t) ==
    /\ pc[t] = "rg_lock"
    /\ StorageCacheLock = NoThread
    /\ hist' = [hist EXCEPT ![t].rgpre = Snapshot]
    /\ \E fault \in BOOLEAN :
        IF fault
        THEN RgReturn(t, [rg[t] EXCEPT !.err = "io"])
        ELSE \E objects \in {FilteredObjects(backend)} :
             \E diff \in {GetObjectSliceDiff(StorageCache, objects)} :
             LET r == [rg[t] EXCEPT !.objects = objects, !.removed = diff.Removed,
                                    !.updated = diff.Updated, !.added = diff.Added,
                                    !.loaded = [i \in 1..Len(diff.Added) |-> NullChartVersion],
                                    !.todo = 1..Len(diff.Added),
                                    !.wRaw = Raw, !.listed = TRUE, !.change = diff.Change,
                                    !.steady = track.steady]
             IN  /\ rg' = [rg EXCEPT ![t] = r]
                 /\ pc' = [pc EXCEPT ![t] = RgPhase(r)]
                 /\ StorageCacheLock' = t
                 /\ resp' = resp
    /\ track' = [track EXCEPT !.stale = @ \ {t}]
    /\ UNCHANGED <<config, backend, index, req, up, nreq, noob>>

\* server.removeIndexObject(index, object) on entries: the error and the entries
removeIndexObject(entries, object) ==
    LET r == getObjectChartVersion(<<>>, object, FALSE, FALSE)
    IN  IF r.err # "nil"
        THEN [err |-> checkInvalidChartPackageError(r.err), entries |-> entries, changed |-> FALSE]
        ELSE [err |-> "nil", entries |-> RemoveEntry(entries, r.cv), changed |-> TRUE]

\* server.updateIndexObject(index, object) on entries, over backend b
updateIndexObject(entries, b, object, fault) ==
    LET r == getObjectChartVersion(b, object, TRUE, fault)
    IN  IF r.err # "nil"
        THEN [err |-> checkInvalidChartPackageError(r.err), entries |-> entries, changed |-> FALSE]
        ELSE [err |-> "nil", entries |-> UpdateEntry(entries, r.cv), changed |-> TRUE]

\* one round of the loop over diff.Removed
RgRemoved(t) ==
    /\ pc[t] = "rg_removed"
    /\ LET x == removeIndexObject(Entries, Head(rg[t].removed))
           rest == [rg[t] EXCEPT !.removed = Tail(@),
                                 !.wRaw = IF x.changed THEN RawEmpty ELSE @]
       IN  /\ Entries' = x.entries
           /\ IF x.err # "nil"
              THEN RgReturn(t, [rg[t] EXCEPT !.err = x.err])
              ELSE RgGoOn(t, rest)
    /\ UNCHANGED <<config, backend, Raw, StorageCache, req, up, hist, track, nreq, noob>>

\* one round of the loop over diff.Updated
RgUpdated(t) ==
    /\ pc[t] = "rg_updated"
    /\ \E fault \in BOOLEAN :
        LET x == updateIndexObject(Entries, backend, Head(rg[t].updated), fault)
            rest == [rg[t] EXCEPT !.updated = Tail(@),
                                  !.wRaw = IF x.changed THEN RawEmpty ELSE @]
        IN  /\ Entries' = x.entries
            /\ IF x.err # "nil"
               THEN RgReturn(t, [rg[t] EXCEPT !.err = x.err])
               ELSE RgGoOn(t, rest)
    /\ UNCHANGED <<config, backend, Raw, StorageCache, req, up, hist, track, nreq, noob>>

\* addIndexObjectsAsync: one of the goroutines runs; after the last one,
\* wg.Wait() returns and the enclosing err decides
RgFetch(t) ==
    /\ pc[t] = "rg_fetch"
    /\ \E i \in rg[t].todo, fault \in BOOLEAN :
        LET r == getObjectChartVersion(backend, rg[t].added[i], TRUE, fault)
            w == AsyncWorker(rg[t].asyncErr, r)
            loaded == [rg[t].loaded EXCEPT ![i] = w.loaded]
            todo == rg[t].todo \ {i}
            r1 == [rg[t] EXCEPT !.loaded = loaded, !.todo = todo, !.asyncErr = w.err,
                                !.fetchErr = IF @ = "nil" /\ r.err # ErrorInvalidChartPackage
                                             THEN r.err ELSE @]
        IN  IF todo # {}
            THEN RgGoOn(t, r1)
            ELSE IF w.err # "nil"
            THEN RgReturn(t, [r1 EXCEPT !.err = w.err])
            ELSE RgGoOn(t, [r1 EXCEPT !.pending =
                                SelectSeq(loaded, LAMBDA cv : cv # NullChartVersion)])
    /\ UNCHANGED <<config, backend, index, req, up, hist, track, nreq, noob>>

\* the loop over loaded: index.AddEntry(chartVersion)
RgAdd(t) ==
    /\ pc[t] = "rg_add"
    /\ Entries' = AddEntry(Entries, Head(rg[t].pending))
    /\ RgGoOn(t, [rg[t] EXCEPT !.pending = Tail(@), !.wRaw = RawEmpty])
    /\ UNCHANGED <<config, backend, Raw, StorageCache, req, up, hist, track, nreq, noob>>

\* a reconcile that keeps the StorageCache it found
KeptCache(objects, cache) == cache

\* what regenerateRepositoryIndex installs as server.StorageCache
InstalledCache(objects, cache) == objects

\* index.Regenerate(), then server.RepositoryIndex = index and
\* server.StorageCache = objects, and the return
RgRegen(t) ==
    /\ pc[t] = "rg_regen"
    /\ \E fault \in BOOLEAN :
        IF fault
        THEN /\ RgReturn(t, [rg[t] EXCEPT !.err = "io"])
             /\ UNCHANGED <<Raw, StorageCache, track>>
        ELSE /\ RgReturn(t, [rg[t] EXCEPT !.wRaw = Serialize(Entries)])
             /\ Raw' = Serialize(Entries)
             /\ StorageCache' = InstalledCache(rg[t].objects, StorageCache)
             /\ track' = [track EXCEPT !.steady = t \notin track.stale]
    /\ UNCHANGED <<config, backend, Entries, req, up, hist, nreq, noob>>

\* a new request is taken by the lowest idle thread (idle threads are alike)
CanStart(t) ==
    /\ pc[t] = "idle"
    /\ nreq < MaxRequests
    /\ \A u \in Threads : u < t => pc[u] # "idle"

\* ------------------------------------------------------------ read handlers
ReadKinds == {"index", "all", "chart", "version"}

\* getIndexFileRequestHandler, getAllChartsRequestHandler,
\* getChartRequestHandler, getChartVersionRequestHandler: entry
StartRead(t) ==
    /\ CanStart(t)
    /\ req' = [req EXCEPT ![t] = [NoReq EXCEPT !.kind = "read"]]
    /\ pc' = [pc EXCEPT ![t] = IF CacheRefreshPeriod = 0 THEN "sync" ELSE "serve"]
    /\ hist' = StartHist(t, FALSE)
    /\ nreq' = nreq + 1
    /\ UNCHANGED <<config, backend, index, StorageCacheLock, rg, up, resp, track, noob>>

\* syncRepositoryIndex: listObjectsGetDiff without the lock (the listing and
\* the diff against StorageCache taken as one step), then
\* regenerateRepositoryIndex when the diff shows a change
SyncList(t) ==
    /\ pc[t] = "sync"
    /\ \E fault \in BOOLEAN :
        IF fault
        THEN /\ pc' = [pc EXCEPT ![t] = "done"]
             /\ resp' = [resp EXCEPT ![t] = 500]
             /\ rg' = rg
        ELSE LET diff == GetObjectSliceDiff(StorageCache, FilteredObjects(backend))
             IN  IF ~diff.Change
                 THEN /\ pc' = [pc EXCEPT ![t] = "serve"]
                      /\ UNCHANGED <<resp, rg>>
                 ELSE /\ pc' = [pc EXCEPT ![t] = "rg_lock"]
                      /\ rg' = [rg EXCEPT ![t].caller = "read", ![t].change = TRUE,
                                          ![t].steady = track.steady]
                      /\ resp' = resp
    /\ UNCHANGED <<config, backend, index, StorageCacheLock, req, up, hist, track, nreq, noob>>

\* what a read handler of a kind answers from server.RepositoryIndex: the
\* entries it serves
Served(kind, name, version) ==
    CASE kind = "index" -> Deserialize(Raw)
      [] kind = "all" -> Entries
      [] kind = "chart" -> VersionsOf(Entries, name)
      [] OTHER -> IndexGet(Entries, name, version)

\* the response of a read handler; the four handlers differ in nothing before it
Serve(t) ==
    /\ pc[t] = "serve"
    /\ \E kind \in ReadKinds, name \in Names, version \in 0..MaxVersion :
        LET status == IF kind \in {"chart", "version"} /\ Served(kind, name, version) = {}
                      THEN 404 ELSE 200
        IN  resp' = [resp EXCEPT ![t] = status]
    /\ pc' = [pc EXCEPT ![t] = "done"]
    /\ UNCHANGED <<config, backend, index, StorageCacheLock, req, rg, up, hist, track, nreq, noob>>

\* Update(), run by the background ticker: regenerateRepositoryIndex
StartTick(t) ==
    /\ CanStart(t)
    /\ CacheRefreshPeriod > 0
    /\ \A u \in Threads : req[u].kind # "tick"
    /\ req' = [req EXCEPT ![t] = [NoReq EXCEPT !.kind = "tick"]]
    /\ rg' = [rg EXCEPT ![t].caller = "tick"]
    /\ pc' = [pc EXCEPT ![t] = "rg_lock"]
    /\ hist' = StartHist(t, FALSE)
    /\ nreq' = nreq + 1
    /\ UNCHANGED <<config, backend, index, StorageCacheLock, up, resp, track, noob>>

\* ----------------------------------------------------- incremental updates
\* the position of the first object of cache with the path filename, or 0
FirstWithPath(cache, filename) ==
    IF \E i \in 1..Len(cache) : cache[i].Path = filename
    THEN CHOOSE i \in 1..Len(cache) :
            /\ cache[i].Path = filename
            /\ \A j \in 1..(i - 1) : cache[j].Path # filename
    ELSE 0

KeepAt(cache, idx) == cache
RemoveAt(cache, idx) == SubSeq(cache, 1, idx - 1) \o SubSeq(cache, idx + 1, Len(cache))

\* server.removeChartPackage(filename) on the live cache, entries and raw
removeChartPackage(cache, entries, raw, filename) ==
    LET idx == FirstWithPath(cache, filename)
    IN  IF idx > 0
        THEN LET x == removeIndexObject(entries, cache[idx])
             IN  IF x.err # "nil"
                 THEN [err |-> x.err, cache |-> cache, entries |-> entries, raw |-> raw]
                 ELSE [err |-> "nil", cache |-> RemoveAt(cache, idx), entries |-> x.entries,
                       raw |-> IF x.changed THEN RawEmpty ELSE raw]
        ELSE [err |-> "notincache", cache |-> cache, entries |-> entries, raw |-> raw]

\* server.addChartPackage(object) on the live cache, entries and raw
addChartPackage(cache, entries, raw, object) ==
    LET appended == Append(cache, object)
        r == getObjectChartVersion(<<>>, object, FALSE, FALSE)
    IN  IF r.err # "nil"
        THEN [err |-> checkInvalidChartPackageError(r.err), cache |-> appended,
              entries |-> entries, raw |-> raw]
        ELSE [err |-> "nil", cache |-> appended, entries |-> AddEntry(entries, r.cv),
              raw |-> RawEmpty]

\* a handler answers with status: the response, and its deferred Unlock()
Answer(t, status) ==
    /\ pc' = [pc EXCEPT ![t] = "done"]
    /\ resp' = [resp EXCEPT ![t] = status]
    /\ StorageCacheLock' = Unlocked

\* a handler goes on at next, holding the lock it took on entry
GoOn(t, next) ==
    /\ pc' = [pc EXCEPT ![t] = next]
    /\ resp' = resp
    /\ StorageCacheLock' = Locked(t)

\* ----------------------------------------- deleteChartVersionRequestHandler
StartDelete(t) ==
    /\ CanStart(t)
    /\ \E name \in Names, version \in RequestVersions :
        req' = [req EXCEPT ![t] = [NoReq EXCEPT !.kind = "delete", !.name = name,
                                                !.version = version]]
    /\ pc' = [pc EXCEPT ![t] = "del_enter"]
    /\ hist' = StartHist(t, TRUE)
    /\ nreq' = nreq + 1
    /\ UNCHANGED <<config, backend, index, StorageCacheLock, rg, up, resp, track, noob>>

\* the lock (periodic refresh only) and DeleteObject(filename)
DelEnter(t) ==
    /\ pc[t] = "del_enter"
    /\ CanLock
    /\ LET filename == ChartPackageFilenameFromNameVersion(req[t].name, req[t].version)
           d == DeleteObject(backend, filename)
       IN  /\ backend' = d.backend
           /\ IF d.err # "nil" THEN Answer(t, 404) ELSE GoOn(t, "del_prov")
           /\ track' = Tracked(d.backend)
           /\ hist' = [hist EXCEPT ![t].dels = @ + 1,
                                   ![t].rgpre = Snapshot,
                                   ![t].indexed = /\ d.err = "nil"
                                                  /\ KeyOf(filename) \in Keys(Entries),
                                   ![t].expectOut = {KeyOf(filename)} \cap track.gone]
    /\ UNCHANGED <<config, index, req, rg, up, nreq, noob>>

\* DeleteObject(provFilename), its error ignored; removeChartPackage(filename)
\* under periodic refresh
DelProv(t) ==
    /\ pc[t] = "del_prov"
    /\ LET filename == ChartPackageFilenameFromNameVersion(req[t].name, req[t].version)
           provFilename == ProvenanceFilenameFromNameVersion(req[t].name, req[t].version)
           x == removeChartPackage(StorageCache, Entries, Raw, filename)
           b == DeleteObject(backend, provFilename).backend
           t1 == Tracked(b)
       IN  /\ backend' = b
           /\ track' = [t1 EXCEPT !.gone = IF hist[t].indexed /\ b[filename] = Absent
                                           THEN @ \cup {KeyOf(filename)} ELSE @]
           /\ IF CacheRefreshPeriod > 0
              THEN /\ StorageCache' = x.cache
                   /\ Entries' = x.entries
                   /\ Raw' = x.raw
                   /\ Answer(t, IF x.err # "nil" THEN 500 ELSE 200)
              ELSE /\ UNCHANGED index
                   /\ Answer(t, 200)
    /\ hist' = [hist EXCEPT ![t].dels = @ + 1, ![t].touched = index' # index]
    /\ UNCHANGED <<config, req, rg, up, nreq, noob>>

\* ------------------------------------------------ postPackageRequestHandler
StartUploadRaw(t) ==
    /\ CanStart(t)
    /\ \E content \in UploadCharts \cup {JunkContent} :
        req' = [req EXCEPT ![t] = [NoReq EXCEPT !.kind = "raw", !.pkg = content]]
    /\ pc' = [pc EXCEPT ![t] = "raw_enter"]
    /\ hist' = StartHist(t, TRUE)
    /\ nreq' = nreq + 1
    /\ UNCHANGED <<config, backend, index, StorageCacheLock, rg, up, resp, track, noob>>

\* whether an upload may store filename: the overwrite check
\* (!server.AllowOverwrite, GetObject, err == nil)
AlreadyExists(b, filename, fault) ==
    ~AllowOverwrite /\ GetObject(b, filename, fault).err = "nil"

\* the lock (periodic refresh only), the filename from the content, the
\* overwrite check
RawEnter(t) ==
    /\ pc[t] = "raw_enter"
    /\ CanLock
    /\ LET f == ChartPackageFilenameFromContent(req[t].pkg)
       IN  IF f.err # "nil"
           THEN /\ Answer(t, 500)
                /\ hist' = hist
           ELSE \E fault \in BOOLEAN :
                /\ IF AlreadyExists(backend, f.filename, fault)
                   THEN Answer(t, 500)
                   ELSE GoOn(t, "raw_put")
                /\ hist' = [hist EXCEPT ![t].existed =
                                ~AllowOverwrite /\ backend[f.filename] # Absent]
    /\ UNCHANGED <<config, backend, index, req, rg, up, track, nreq, noob>>

\* PutObject(filename, content)
RawPut(t) ==
    /\ pc[t] = "raw_put"
    /\ \E fault \in BOOLEAN :
        LET f == ChartPackageFilenameFromContent(req[t].pkg)
            x == PutObject(backend, f.filename, req[t].pkg, fault)
        IN  /\ backend' = x.backend
            /\ track' = Tracked(x.backend)
            /\ IF x.err # "nil" THEN Answer(t, 500)
               ELSE IF CacheRefreshPeriod > 0 THEN GoOn(t, "raw_get")
               ELSE Answer(t, 201)
    /\ hist' = [hist EXCEPT ![t].puts = @ + 1]
    /\ UNCHANGED <<config, index, req, rg, up, nreq, noob>>

\* under periodic refresh: GetObject(filename), then addChartPackage(obj)
RawGet(t) ==
    /\ pc[t] = "raw_get"
    /\ \E fault \in BOOLEAN :
        LET f == ChartPackageFilenameFromContent(req[t].pkg)
            g == GetObject(backend, f.filename, fault)
            a == addChartPackage(StorageCache, Entries, Raw, g.object)
        IN  IF g.err # "nil"
            THEN /\ Answer(t, 500)
                 /\ UNCHANGED index
            ELSE /\ StorageCache' = a.cache
                 /\ Entries' = a.entries
                 /\ Raw' = a.raw
                 /\ Answer(t, IF a.err # "nil" THEN 500 ELSE 201)
    /\ hist' = [hist EXCEPT ![t].touched = index' # index]
    /\ track' = [track EXCEPT !.steady = @ /\ index' = index]
    /\ UNCHANGED <<config, backend, req, rg, up, nreq, noob>>

\* ----------------------------------- postPackageAndProvenanceRequestHandler
StartUploadMultipart(t) ==
    /\ CanStart(t)
    /\ \E pkg \in UploadCharts \cup {Absent}, prov \in UploadProvs \cup {Absent} :
        req' = [req EXCEPT ![t] = [NoReq EXCEPT !.kind = "multipart", !.pkg = pkg,
                                                !.prov = prov]]
    /\ pc' = [pc EXCEPT ![t] = "mp_enter"]
    /\ hist' = StartHist(t, TRUE)
    /\ nreq' = nreq + 1
    /\ UNCHANGED <<config, backend, index, StorageCacheLock, rg, up, resp, track, noob>>

\* server.extractAndValidateFormFile for a form field holding content (Absent:
\* the field is not present), f the result of fnFromContent(content)
extractAndValidateFormFile(b, content, f, fault) ==
    IF content = Absent THEN [files |-> <<>>, status |-> 200, err |-> "nil"]
    ELSE IF f.err # "nil" THEN [files |-> <<>>, status |-> 400, err |-> f.err]
    ELSE IF AlreadyExists(b, f.filename, fault)
         THEN [files |-> <<>>, status |-> 409, err |-> "exists"]
    ELSE [files |-> <<[filename |-> f.filename, content |-> content]>>,
          status |-> 200, err |-> "nil"]

\* the overwrite check of a form field met a stored file
FieldExisted(content, f) ==
    /\ ~AllowOverwrite
    /\ content # Absent
    /\ f.err = "nil"
    /\ backend[f.filename] # Absent

\* the lock (periodic refresh only) and the package field of the form
MpEnter(t) ==
    /\ pc[t] = "mp_enter"
    /\ CanLock
    /\ \E fault \in BOOLEAN :
        LET f == ChartPackageFilenameFromContent(req[t].pkg)
            x == extractAndValidateFormFile(backend, req[t].pkg, f, fault)
        IN  /\ IF x.err # "nil" THEN Answer(t, x.status) ELSE GoOn(t, "mp_field2")
            /\ up' = [up EXCEPT ![t].files = x.files]
            /\ hist' = [hist EXCEPT ![t].existed = FieldExisted(req[t].pkg, f)]
    /\ UNCHANGED <<config, backend, index, req, rg, track, nreq, noob>>

\* the provenance field of the form; no file at all is a bad request
MpField2(t) ==
    /\ pc[t] = "mp_field2"
    /\ \E fault \in BOOLEAN :
        LET f == ProvenanceFilenameFromContent(req[t].prov)
            x == extractAndValidateFormFile(backend, req[t].prov, f, fault)
            files == up[t].files \o x.files
        IN  /\ IF x.err # "nil" THEN Answer(t, x.status)
               ELSE IF Len(files) = 0 THEN Answer(t, 400)
               ELSE GoOn(t, "mp_put")
            /\ up' = [up EXCEPT ![t].files = files, ![t].i = 1]
            /\ hist' = [hist EXCEPT ![t].existed = @ \/ FieldExisted(req[t].prov, f)]
    /\ UNCHANGED <<config, backend, index, req, rg, track, nreq, noob>>

\* after files[i] is stored (and indexed): the next file, or 201
MpNext(t) ==
    IF up[t].i = Len(up[t].files) THEN Answer(t, 201) ELSE GoOn(t, "mp_put")

\* PutObject(ppf.filename, ppf.content) for the file at hand
MpPut(t) ==
    /\ pc[t] = "mp_put"
    /\ \E fault \in BOOLEAN :
        LET ppf == up[t].files[up[t].i]
            x == PutObject(backend, ppf.filename, ppf.content, fault)
        IN  /\ backend' = x.backend
            /\ track' = Tracked(x.backend)
            /\ IF x.err # "nil"
               THEN /\ IF up[t].stored = <<>> THEN Answer(t, 500) ELSE GoOn(t, "mp_cleanup")
                    /\ up' = up
                    /\ hist' = [hist EXCEPT ![t].puts = @ + 1,
                                            ![t].provFailed = up[t].stored # <<>>]
               ELSE /\ hist' = [hist EXCEPT ![t].puts = @ + 1]
                    /\ IF CacheRefreshPeriod > 0 /\ ppf.filename.ext = ChartPackageFileExtension
                       THEN /\ GoOn(t, "mp_get")
                            /\ up' = [up EXCEPT ![t].stored = Append(@, ppf.filename)]
                       ELSE /\ MpNext(t)
                            /\ up' = [up EXCEPT ![t].stored = Append(@, ppf.filename),
                                                ![t].i = @ + 1]
    /\ UNCHANGED <<config, index, req, rg, nreq, noob>>

\* under periodic refresh, for a stored package: GetObject, addChartPackage.
\* "obj, err :=" declares a second err inside the block, so the err tested
\* after the block is still PutObject's nil: a failed GetObject or
\* addChartPackage goes on to the next file
MpGet(t) ==
    /\ pc[t] = "mp_get"
    /\ \E fault \in BOOLEAN :
        LET ppf == up[t].files[up[t].i]
            g == GetObject(backend, ppf.filename, fault)
            a == addChartPackage(StorageCache, Entries, Raw, g.object)
        IN  IF g.err # "nil"
            THEN UNCHANGED index
            ELSE /\ StorageCache' = a.cache
                 /\ Entries' = a.entries
                 /\ Raw' = a.raw
    /\ MpNext(t)
    /\ up' = [up EXCEPT ![t].i = @ + 1]
    /\ hist' = [hist EXCEPT ![t].touched = @ \/ index' # index]
    /\ track' = [track EXCEPT !.steady = @ /\ index' = index]
    /\ UNCHANGED <<config, backend, req, rg, nreq, noob>>

\* "Clean up what's already been saved": DeleteObject for one stored file, its
\* error ignored; after the last one, 500
MpCleanup(t) ==
    /\ pc[t] = "mp_cleanup"
    /\ backend' = DeleteObject(backend, Head(up[t].stored)).backend
    /\ track' = Tracked(DeleteObject(backend, Head(up[t].stored)).backend)
    /\ up' = [up EXCEPT ![t].stored = Tail(@)]
    /\ IF Len(up[t].stored) = 1 THEN Answer(t, 500) ELSE GoOn(t, "mp_cleanup")
    /\ hist' = [hist EXCEPT ![t].dels = @ + 1]
    /\ UNCHANGED <<config, index, req, rg, nreq, noob>>

\* ------------------------------------------ postProvenanceFileRequestHandler
StartUploadProv(t) ==
    /\ CanStart(t)
    /\ \E content \in UploadProvs :
        req' = [req EXCEPT ![t] = [NoReq EXCEPT !.kind = "rawprov", !.prov = content]]
    /\ pc' = [pc EXCEPT ![t] = "prov_enter"]
    /\ hist' = StartHist(t, TRUE)
    /\ nreq' = nreq + 1
    /\ UNCHANGED <<config, backend, index, StorageCacheLock, rg, up, resp, track, noob>>

\* no lock in either mode: the filename from the content, the overwrite check
ProvEnter(t) ==
    /\ pc[t] = "prov_enter"
    /\ LET f == ProvenanceFilenameFromContent(req[t].prov)
       IN  IF f.err # "nil"
           THEN /\ resp' = [resp EXCEPT ![t] = 500]
                /\ pc' = [pc EXCEPT ![t] = "done"]
                /\ hist' = hist
           ELSE \E fault \in BOOLEAN :
                /\ IF AlreadyExists(backend, f.filename, fault)
                   THEN /\ resp' = [resp EXCEPT ![t] = 500]
                        /\ pc' = [pc EXCEPT ![t] = "done"]
                   ELSE /\ resp' = resp
                        /\ pc' = [pc EXCEPT ![t] = "prov_put"]
                /\ hist' = [hist EXCEPT ![t].existed =
                                ~AllowOverwrite /\ backend[f.filename] # Absent]
    /\ UNCHANGED <<config, backend, index, StorageCacheLock, req, rg, up, track, nreq, noob>>

\* PutObject(filename, content)
ProvPut(t) ==
    /\ pc[t] = "prov_put"
    /\ \E fault \in BOOLEAN :
        LET f == ProvenanceFilenameFromContent(req[t].prov)
            x == PutObject(backend, f.filename, req[t].prov, fault)
        IN  /\ backend' = x.backend
            /\ track' = Tracked(x.backend)
            /\ resp' = [resp EXCEPT ![t] = IF x.err # "nil" THEN 500 ELSE 201]
    /\ pc' = [pc EXCEPT ![t] = "done"]
    /\ hist' = [hist EXCEPT ![t].puts = @ + 1]
    /\ UNCHANGED <<config, index, StorageCacheLock, req, rg, up, nreq, noob>>

\* the request is answered; its locals are gone
Finish(t) ==
    /\ pc[t] = "done"
    /\ pc' = [pc EXCEPT ![t] = "idle"]
    /\ req' = [req EXCEPT ![t] = NoReq]
    /\ rg' = [rg EXCEPT ![t] = NoRg]
    /\ up' = [up EXCEPT ![t] = NoUp]
    /\ resp' = [resp EXCEPT ![t] = 0]
    /\ hist' = [hist EXCEPT ![t] = NoHist]
    /\ UNCHANGED <<config, backend, index, StorageCacheLock, track, nreq, noob>>

\* ------------------------------------------------------------ out-of-band

\* somebody else writes or deletes package files of the backend
OutOfBand ==
    /\ noob < MaxOutOfBand
    /\ \E b \in [PackagePaths -> {Absent} \cup ChartContents \cup {JunkContent}] :
        /\ \A p \in PackagePaths : b[p] = backend[p] \/ b[p] \in StoredContents(p, JunkContent)
        /\ \E p \in PackagePaths : b[p] # backend[p]
        /\ backend' = [p \in Paths |-> IF p \in PackagePaths THEN b[p] ELSE backend[p]]
        /\ track' = [Tracked(backend') EXCEPT
                !.oobAdded = {KeyOf(p) : p \in {q \in PackagePaths :
                                backend[q] = Absent /\ b[q].kind = "chart"}},
                !.oobRemoved = {KeyOf(p) : p \in {q \in PackagePaths :
                                backend[q].kind = "chart" /\ b[q] = Absent}}]
    /\ noob' = noob + 1
    /\ hist' = [u \in Threads |-> [hist[u] EXCEPT !.alone = FALSE]]
    /\ UNCHANGED <<config, index, StorageCacheLock, pc, req, rg, up, resp, nreq>>

Next ==
    \/ \E t \in Threads : StartRead(t)
    \/ \E t \in Threads : SyncList(t)
    \/ \E t \in Threads : Serve(t)
    \/ \E t \in Threads : StartTick(t)
    \/ \E t \in Threads : RgList(t)
    \/ \E t \in Threads : RgRemoved(t)
    \/ \E t \in Threads : RgUpdated(t)
    \/ \E t \in Threads : RgFetch(t)
    \/ \E t \in Threads : RgAdd(t)
    \/ \E t \in Threads : RgRegen(t)
    \/ \E t \in Threads : StartDelete(t)
    \/ \E t \in Threads : DelEnter(t)
    \/ \E t \in Threads : DelProv(t)
    \/ \E t \in Threads : StartUploadRaw(t)
    \/ \E t \in Threads : RawEnter(t)
    \/ \E t \in Threads : RawPut(t)
    \/ \E t \in Threads : RawGet(t)
    \/ \E t \in Threads : StartUploadMultipart(t)
    \/ \E t \in Threads : MpEnter(t)
    \/ \E t \in Threads : MpField2(t)
    \/ \E t \in Threads : MpPut(t)
    \/ \E t \in Threads : MpGet(t)
    \/ \E t \in Threads : MpCleanup(t)
    \/ \E t \in Threads : StartUploadProv(t)
    \/ \E t \in Threads : ProvEnter(t)
    \/ \E t \in Threads : ProvPut(t)
    \/ \E t \in Threads : Finish(t)
    \/ OutOfBand

Spec == Init /\ [][Next]_vars

\* ------------------------------------------------------------ fair runs
\* a request arrives at thread t
Begin(t) ==
    \/ StartRead(t)
    \/ StartTick(t)
    \/ StartDelete(t)
    \/ StartUploadRaw(t)
    \/ StartUploadMultipart(t)
    \/ StartUploadProv(t)

\* the request or reconcile of thread t takes its next step
Proceed(t) ==
    \/ SyncList(t)
    \/ Serve(t)
    \/ RgList(t)
    \/ RgRemoved(t)
    \/ RgUpdated(t)
    \/ RgFetch(t)
    \/ RgAdd(t)
    \/ RgRegen(t)
    \/ DelEnter(t)
    \/ DelProv(t)
    \/ RawEnter(t)
    \/ RawPut(t)
    \/ RawGet(t)
    \/ MpEnter(t)
    \/ MpField2(t)
    \/ MpPut(t)
    \/ MpGet(t)
    \/ MpCleanup(t)
    \/ ProvEnter(t)
    \/ ProvPut(t)

\* the server with nobody else writing to the backend
ServerNext == \E t \in Threads : Begin(t) \/ Proceed(t) \/ Finish(t)

\* every backend call returns and a goroutine that can run does: a step that
\* does not wait is taken, and sync.Mutex hands the lock to a waiter that
\* finds it free again and again
FairSpec ==
    /\ Init
    /\ [][ServerNext]_vars
    /\ \A t \in Threads : SF_vars(Proceed(t))

\* -------------------------------------- addChartPackage, removeChartPackage
\* the two incremental paths applied back to back to the live index, with no
\* request in between: thread 1 holds the object (req) and the index before
\* the add (hist.rgpre); hist.existed: StorageCache held the object's path
MaxAdds == 3
\* the objects a listing or GetObject can hand over for a package path
AddableObjects ==
    UNION {{Object(p, c) : c \in StoredContents(p, JunkContent) \ {Absent}} :
            p \in PackagePaths}

AddPackage ==
    /\ pc[1] \in {"idle", "rt_added", "rt_removed"}
    /\ nreq < MaxAdds
    /\ \E o \in AddableObjects :
        LET a == addChartPackage(StorageCache, Entries, Raw, o)
        IN  /\ a.err = "nil"
            /\ StorageCache' = a.cache
            /\ Entries' = a.entries
            /\ Raw' = a.raw
            /\ req' = [req EXCEPT ![1] = [NoReq EXCEPT !.kind = "add", !.name = o.Path.name,
                                                       !.version = o.Path.version,
                                                       !.pkg = o.Content]]
            /\ hist' = [hist EXCEPT ![1] = [NoHist EXCEPT
                            !.rgpre = Snapshot,
                            !.existed = o.Path \in PathsOf(StorageCache)]]
    /\ pc' = [pc EXCEPT ![1] = "rt_added"]
    /\ nreq' = nreq + 1
    /\ UNCHANGED <<config, backend, StorageCacheLock, rg, up, resp, track, noob>>

RemovePackage ==
    /\ pc[1] = "rt_added"
    /\ LET filename == ChartPackageFilenameFromNameVersion(req[1].name, req[1].version)
           r == removeChartPackage(StorageCache, Entries, Raw, filename)
       IN  /\ r.err = "nil"
           /\ StorageCache' = r.cache
           /\ Entries' = r.entries
           /\ Raw' = r.raw
    /\ pc' = [pc EXCEPT ![1] = "rt_removed"]
    /\ UNCHANGED <<config, backend, StorageCacheLock, req, rg, up, resp, hist, track,
                   nreq, noob>>

RoundTripNext == AddPackage \/ RemovePackage

RoundTripSpec == Init /\ [][RoundTripNext]_vars

\* ------------------------------------------------------------------ claims
\* the index a reconcile found when it took the lock
PreReconcile(t) ==
    <<hist[t].rgpre.Entries, hist[t].rgpre.Raw, hist[t].rgpre.StorageCache>>

\* C1: a reconcile that fails after its listing succeeded (in the loop over the
\* removed objects, the re-fetch of the updated ones, the load of the added
\* ones or Regenerate) leaves the live entries, the raw bytes and StorageCache
\* exactly as they were when it started
FailedReconcileLeavesIndexUntouched ==
    [][\A t \in Threads :
        (pc[t] \in RgPhases /\ rg'[t].err # "nil")
            => <<Entries', Raw', StorageCache'>> = PreReconcile(t)]_vars

RECURSIVE RemoveAll(_, _)
\* the loop over diff.Removed, run to its end
RemoveAll(entries, objects) ==
    IF objects = <<>> THEN entries
    ELSE RemoveAll(removeIndexObject(entries, Head(objects)).entries, Tail(objects))

RECURSIVE UpdateAll(_, _, _)
\* the loop over diff.Updated, run to its end with no backend failure
UpdateAll(entries, b, objects) ==
    IF objects = <<>> THEN entries
    ELSE UpdateAll(updateIndexObject(entries, b, Head(objects), FALSE).entries, b,
                   Tail(objects))

RECURSIVE AddAll(_, _)
\* the loop over loaded, run to its end
AddAll(entries, loaded) ==
    IF loaded = <<>> THEN entries
    ELSE IF Head(loaded) = NullChartVersion THEN AddAll(entries, Tail(loaded))
    ELSE AddAll(AddEntry(entries, Head(loaded)), Tail(loaded))

\* the entries the running reconcile of thread t ends with when nothing fails
\* from here on
PostReconcileEntries(t) ==
    LET r == rg[t]
        loaded == [i \in 1..Len(r.added) |->
                    IF i \in r.todo
                    THEN AsyncWorker(r.asyncErr,
                            getObjectChartVersion(backend, r.added[i], TRUE, FALSE)).loaded
                    ELSE r.loaded[i]]
    IN  AddAll(UpdateAll(RemoveAll(Entries, r.removed), backend, r.updated), loaded)

\* C2: while a reconcile runs, the entries a read handler is about to serve are
\* the complete entries from before the reconcile or the complete entries it
\* ends with, never entries with only some of its removals, updates and
\* additions applied
ReaderSeesPreOrPostReconcileEntries ==
    \A t \in Threads : \A u \in Threads \ {t} :
        (pc[t] = "serve" /\ pc[u] \in RgPhases)
            => Entries \in {hist[u].rgpre.Entries, PostReconcileEntries(u)}

\* C3: whenever nobody holds the cache lock, every entry of the live index has
\* an object with its filename in StorageCache, and every object of
\* StorageCache that decodes to a chart has its (name, version) in the entries
IndexAgreesWithStorageCache ==
    StorageCacheLock = NoThread =>
        /\ \A e \in Entries : \E i \in 1..Len(StorageCache) :
                StorageCache[i].Path = ChartPackageFilenameFromNameVersion(e.Name, e.Version)
        /\ \A i \in 1..Len(StorageCache) :
                LET r == ChartVersionFromStorageObject(StorageCache[i])
                IN  r.err = "nil" => <<r.cv.Name, r.cv.Version>> \in Keys(Entries)

\* C4: when the fetch or decode of one of the added objects fails with an error
\* other than ErrorInvalidChartPackage, addIndexObjectsAsync returns an error
\* and the reconcile fails (so that it installs nothing)
AsyncLoaderReportsFetchError ==
    \A t \in Threads :
        (rg[t].listed /\ rg[t].todo = {} /\ rg[t].fetchErr # "nil") => rg[t].err # "nil"

\* C5: a multipart upload of a package and a provenance file whose package was
\* stored and whose provenance file PutObject then refused is answered 500, the
\* stored package is deleted from the backend again, and the request has not
\* changed the live entries or StorageCache, under either refresh mode (for an
\* upload that ran with nothing concurrent to it and whose overwrite checks met
\* no stored file)
MultipartProvenanceFailureUndone ==
    \A t \in Threads :
        (/\ pc[t] = "done"
         /\ req[t].kind = "multipart"
         /\ hist[t].provFailed
         /\ hist[t].alone
         /\ ~hist[t].existed)
            => /\ resp[t] = 500
               /\ backend[ChartPackageFilenameFromContent(req[t].pkg).filename] = Absent
               /\ ~hist[t].touched

\* the status an upload handler answers a conflict with
ConflictStatus(kind) == IF kind = "raw" THEN 500 ELSE 409

\* C6: with AllowOverwrite = FALSE, an upload (raw or multipart) that runs with
\* nothing concurrent to it and whose filename is already stored is answered as
\* a conflict, has called neither PutObject nor DeleteObject, and has not
\* changed the index or StorageCache
ExistingFilenameIsConflict ==
    \A t \in Threads :
        (/\ pc[t] = "done"
         /\ req[t].kind \in {"raw", "multipart"}
         /\ ~AllowOverwrite
         /\ hist[t].alone
         /\ hist[t].existed)
            => /\ resp[t] = ConflictStatus(req[t].kind)
               /\ hist[t].puts = 0
               /\ hist[t].dels = 0
               /\ ~hist[t].touched

\* the (name, version) pairs of the index a read handler serves: every handler
\* answers from the entries, but for the index file, which is the raw bytes
ServesKey(k) == k \in Keys(Entries) /\ k \in Keys(Deserialize(Raw))
ServesNoKey(k) == k \notin Keys(Entries) /\ k \notin Keys(Deserialize(Raw))

\* C7: under refresh on read, a read that starts after a valid package was
\* added to (removed from) the backend out-of-band and that gets to serve (it
\* did not answer 500) serves an index with (without) the package's
\* (name, version), as long as the backend was not changed again
RefreshOnReadServesOutOfBandChange ==
    \A t \in Threads :
        (CacheRefreshPeriod = 0 /\ pc[t] = "serve")
            => /\ \A k \in hist[t].expectIn \cap track.oobAdded : ServesKey(k)
               /\ \A k \in hist[t].expectOut \cap track.oobRemoved : ServesNoKey(k)

\* C8: a delete of a stored and indexed package leaves the backend without the
\* package, has called DeleteObject for the provenance file too, and leaves the
\* entries without the (name, version) and with the other entries (at once
\* under periodic refresh; for the next read to serve in either mode); a second
\* delete of it with no upload in between is answered 404
DeleteRemovesPackageAndEntry ==
    /\ \A t \in Threads :
        (pc[t] = "done" /\ req[t].kind = "delete" /\ hist[t].indexed /\ hist[t].alone)
            => LET filename == ChartPackageFilenameFromNameVersion(req[t].name,
                                                                   req[t].version)
               IN  /\ backend[filename] = Absent
                   /\ hist[t].dels = 2
                   /\ CacheRefreshPeriod > 0 =>
                        /\ KeyOf(filename) \notin Keys(Entries)
                        /\ {e \in hist[t].rgpre.Entries :
                                <<e.Name, e.Version>> # KeyOf(filename)} \subseteq Entries
    /\ \A t \in Threads :
        pc[t] = "serve" =>
            \A k \in hist[t].expectOut \cap track.gone : k \notin Keys(Entries)
    /\ \A t \in Threads :
        (pc[t] = "done" /\ req[t].kind = "delete" /\ hist[t].expectOut # {})
            => resp[t] = 404

\* C9: no reconcile fails with ErrorInvalidChartPackage, and a reconcile that
\* returns success, whose listing is still what the backend holds and none of
\* whose fetches failed, leaves every object of its listing that does not
\* decode without an entry and every object that decodes with its entry
InvalidArtifactAbsorbed ==
    [][\A t \in Threads :
        /\ rg'[t].err # ErrorInvalidChartPackage
        /\ (/\ pc[t] = "rg_regen" /\ pc'[t] # "rg_regen" /\ rg'[t].err = "nil"
            /\ t \notin track.stale /\ rg[t].fetchErr = "nil")
            => \A i \in 1..Len(rg[t].objects) :
                LET r == ChartVersionFromStorageObject(rg[t].objects[i])
                IN  IF r.err = "nil" THEN r.cv \in Entries'
                    ELSE KeyOf(rg[t].objects[i].Path) \notin Keys(Entries')]_vars

\* C10: a reconcile that lists when a reconcile has returned success and
\* neither the backend nor (by an upload or delete) the index and StorageCache
\* were changed since that one's listing computes a diff with no change, and
\* returns with the entries and StorageCache it found
SteadyReconcileChangesNothing ==
    [][\A t \in Threads :
        rg'[t].steady =>
            /\ ~rg'[t].change
            /\ (pc[t] = "rg_regen" /\ pc'[t] # "rg_regen") =>
                    /\ Entries' = hist[t].rgpre.Entries
                    /\ StorageCache' = hist[t].rgpre.StorageCache]_vars

\* a reconcile found a change and returned success, and the next reconcile
\* listed the same objects in the steady state it left, and returned success
SteadyReconcileReturned ==
    \E t \in Threads : \E u \in Threads \ {t} :
        /\ pc[u] = "done" /\ rg[u].listed /\ rg[u].change /\ rg[u].err = "nil"
        /\ pc[t] = "done" /\ rg[t].listed /\ rg[t].steady /\ rg[t].err = "nil"
        /\ rg[t].objects = rg[u].objects

MutationPhases ==
    {"del_prov", "raw_put", "raw_get", "mp_field2", "mp_put", "mp_get", "mp_cleanup"}

\* C12: in both modes, an upload (raw, multipart) or delete holds the cache
\* lock from before its first backend write until it has answered, so no
\* two of them are between their entry and their answer at once.
MutationsHoldLock ==
    \A t \in Threads :
        pc[t] \in MutationPhases
            => /\ StorageCacheLock = t
               /\ \A u \in Threads \ {t} : pc[u] \notin MutationPhases

\* C13: in refresh-on-read mode a read holds the cache lock while it lists
\* the backend, reads StorageCache and takes the diff that decides whether it
\* reconciles.
ReadDecidesUnderLock ==
    [][\A t \in Threads :
        (pc[t] = "sync" /\ pc'[t] # "sync") => StorageCacheLock = t]_vars

\* where a request or reconcile is about to call StorageCacheLock.Lock()
LockPhases == {"rg_lock", "del_enter", "raw_enter", "mp_enter"}

\* C14: whoever holds the cache lock is a reconcile or a request between its
\* Lock() and the exit that unlocks, so the lock is released on every exit
\* and nobody asks for it while holding it; and with backend calls that
\* return, every request and reconcile that waits for the lock gets it and
\* completes.
LockReleasedAndGranted ==
    /\ [](\A t \in Threads :
            /\ StorageCacheLock = t => pc[t] \in RgPhases \cup MutationPhases
            /\ StorageCacheLock \in Threads \cup {NoThread})
    /\ \A t \in Threads : (pc[t] \in LockPhases) ~> (pc[t] = "done")

\* a reconcile waits for the lock that a request holds
WaitsForHeldLock ==
    \E t, u \in Threads :
        /\ pc[t] \in LockPhases
        /\ StorageCacheLock = u
        /\ pc[u] \in MutationPhases

\* C15: with AllowOverwrite = false an upload calls PutObject for a filename
\* only if the GetObject of its overwrite check answered NotFound; so never
\* when the filename was stored at the check and GetObject failed otherwise
\* (for a multipart upload: one with a single file, whose check it was).
PutOnlyAfterNotFound ==
    [][\A t \in Threads :
        (/\ ~AllowOverwrite
         /\ hist'[t].puts > hist[t].puts
         /\ req[t].kind = "multipart" => Len(up[t].files) = 1)
            => ~hist[t].existed]_vars

\* C16: under periodic refresh, an upload or delete that changed the entries
\* has called Regenerate when it releases the lock: at release Raw is the
\* serialization of the entries.
MutationRegeneratesBeforeUnlock ==
    [][\A t \in Threads :
        (/\ CacheRefreshPeriod > 0
         /\ pc[t] \in MutationPhases
         /\ pc'[t] = "done"
         /\ Entries' # Entries)
            => Raw' = Serialize(Entries')]_vars

\* the object the post-put GetObject of thread t's upload gets when it succeeds
FetchedObject(t) ==
    LET filename == IF pc[t] = "mp_get" THEN up[t].files[up[t].i].filename
                    ELSE ChartPackageFilenameFromContent(req[t].pkg).filename
    IN  GetObject(backend, filename, FALSE).object

\* C17: when addChartPackage(object) fails to decode the object, the object
\* it appended is removed again: StorageCache and the entries are as before
\* the call (in an upload whose overwrite check met no stored file).
FailedAddRevertsAppend ==
    [][\A t \in Threads :
        (/\ pc[t] \in {"raw_get", "mp_get"}
         /\ ~hist[t].existed
         /\ ChartVersionFromStorageObject(FetchedObject(t)).err # "nil")
            => /\ StorageCache' = StorageCache
               /\ Entries' = Entries]_vars

\* C18: StorageCache holds at most one object per path; in particular with
\* AllowOverwrite = true, where an upload under periodic refresh may be of a
\* package whose filename StorageCache already holds.
OneObjectPerPath ==
    AllowOverwrite =>
        \A i, j \in 1..Len(StorageCache) :
            StorageCache[i].Path = StorageCache[j].Path => i = j

\* C19: under periodic refresh an upload of a package, raw or multipart, is
\* answered 201 only after its post-put GetObject and addChartPackage both
\* succeeded: when it answers 201, StorageCache holds an object with the
\* package's filename.
CreatedPackageIsCached ==
    [][\A t \in Threads :
        (/\ CacheRefreshPeriod > 0
         /\ req[t].kind \in {"raw", "multipart"}
         /\ req[t].pkg # Absent
         /\ pc[t] # "done" /\ pc'[t] = "done"
         /\ resp'[t] = 201)
            => ChartPackageFilenameFromContent(req[t].pkg).filename
                    \in PathsOf(StorageCache')]_vars

\* the filename of the PutObject thread t's upload is about to issue
PutFilename(t) ==
    IF pc[t] = "mp_put" THEN up[t].files[up[t].i].filename
    ELSE IF pc[t] = "prov_put" THEN ProvenanceFilenameFromContent(req[t].prov).filename
    ELSE ChartPackageFilenameFromContent(req[t].pkg).filename

\* C20: with AllowOverwrite = false and uploads as the only writers, in either
\* mode, an upload whose overwrite check found its filenames absent issues no
\* PutObject for a filename the backend holds at that moment: of two
\* concurrent uploads of a new filename, one is refused.
NoPutOverConcurrentUpload ==
    [][\A t \in Threads :
        (/\ ~AllowOverwrite
         /\ noob = 0
         /\ ~hist[t].existed
         /\ pc[t] \in {"raw_put", "mp_put", "prov_put"}
         /\ hist'[t].puts > hist[t].puts)
            => backend[PutFilename(t)] = Absent]_vars

\* where a thread is between statements that write server.RepositoryIndex or
\* server.StorageCache: a reconcile after its listing, and, under periodic
\* refresh, a delete before removeChartPackage and an upload before
\* addChartPackage
WritePhases ==
    RgPhases \cup (IF CacheRefreshPeriod > 0 THEN {"del_prov", "raw_get", "mp_get"} ELSE {})

\* thread t takes the step
StepOf(t) ==
    /\ pc'[t] # pc[t] \/ rg'[t] # rg[t] \/ up'[t] # up[t]
    /\ \A u \in Threads \ {t} : pc'[u] = pc[u] /\ rg'[u] = rg[u] /\ up'[u] = up[u]

\* C21: in both modes, every step that changes the live entries, raw or
\* StorageCache is taken by the thread that holds the cache lock, and a
\* thread about to write them holds the lock, so no two threads write them
\* at once.
IndexWrittenUnderLock ==
    /\ [](\A t \in Threads : pc[t] \in WritePhases => StorageCacheLock = t)
    /\ [][index' # index =>
            \E t \in Threads : StorageCacheLock = t /\ StepOf(t)]_vars

\* a reconcile that holds the lock has changed the live entries while an
\* upload or delete waits for the lock
WriterHoldsLockOtherWaits ==
    \E t, u \in Threads :
        /\ pc[t] \in RgPhases
        /\ StorageCacheLock = t
        /\ Entries # hist[t].rgpre.Entries
        /\ pc[u] \in {"del_enter", "raw_enter", "mp_enter"}

====
